---- MODULE Spec2Model ----
(***************************************************************************)
(* Book CRUD service of the Smart Library System: the Express routes of    *)
(* server/routes/bookRoutes.js over the Mongoose Book model.  Every await  *)
(* of a handler is a point where other requests' store calls interleave,   *)
(* so a handler is one action per store call.                              *)
(***************************************************************************)
EXTENDS Integers, Sequences, FiniteSets, TLC

(* ---------------------------------------------------------------- bounds *)
MaxRequests == 2      \* requests the clients send in one behaviour, in flight together or not
MaxInitBooks == 2     \* books the collection holds when the server starts
MaxClock == 1         \* milliseconds the clock advances in one behaviour
MaxCalls == 3         \* calls of the api service the client makes in one behaviour

(* ------------------------------------------------------------ JS values *)
Undefined == [t |-> "undefined", v |-> <<>>]

Str(s) == [t |-> "string", v |-> s]

\* the malformed identifier: a string no ObjectId can be cast from
BadId == 0

\* the ObjectIds the store can have handed out
Ids == 1..(MaxInitBooks + MaxRequests)

\* a well-formed identifier the store never hands out
NoSuchId == MaxInitBooks + MaxRequests + 1

Reqs == 1..MaxRequests

Whitespace == {" "}

Digits == {"0", "1", "2", "3", "4", "5", "6", "7", "8", "9"}

DigitVal(c) ==
    CASE c = "0" -> 0 [] c = "1" -> 1 [] c = "2" -> 2 [] c = "3" -> 3
      [] c = "4" -> 4 [] c = "5" -> 5 [] c = "6" -> 6 [] c = "7" -> 7
      [] c = "8" -> 8 [] c = "9" -> 9

RECURSIVE TrimStart(_)
TrimStart(s) ==
    IF s # <<>> /\ Head(s) \in Whitespace THEN TrimStart(Tail(s)) ELSE s

RECURSIVE TrimEnd(_)
TrimEnd(s) ==
    IF s # <<>> /\ s[Len(s)] \in Whitespace
    THEN TrimEnd(SubSeq(s, 1, Len(s) - 1))
    ELSE s

\* String.prototype.trim, the setter `trim: true` installs
Trim(s) == TrimEnd(TrimStart(s))

\* JavaScript truthiness of a body field: `!title`
Falsy(x) == x.t = "undefined" \/ x.v = <<>>

(* ------------------------------------------- the Book schema (Mongoose) *)
\* a String path: the cast value after the trim setter, or null when absent
CastString(x) == IF x.t = "undefined" THEN Undefined ELSE Str(Trim(x.v))

\* the strings new Date() parses in the model: a four-digit ISO year
IsDateString(s) == Len(s) = 4 /\ \A i \in 1..4 : s[i] \in Digits

\* the Date a date string denotes (its year)
DateValue(s) ==
    DigitVal(s[1]) * 1000 + DigitVal(s[2]) * 100 + DigitVal(s[3]) * 10
        + DigitVal(s[4])

\* a Date path: "ok" with the Date, "null" for undefined or '', else a CastError
CastDate(x) ==
    IF x.t = "undefined" \/ x.v = <<>> THEN [r |-> "null", d |-> 0]
    ELSE IF IsDateString(x.v) THEN [r |-> "ok", d |-> DateValue(x.v)]
    ELSE [r |-> "error", d |-> 0]

\* `required` of a String path fails on null and on the empty string
StringMissing(x) == CastString(x).t = "undefined" \/ CastString(x).v = <<>>

\* the messages of the ValidationError of a document built from a body,
\* in schema order (Object.values(error.errors))
TitleErrors(input) ==
    IF StringMissing(input.title) THEN <<"Book title is required">> ELSE <<>>

AuthorErrors(input) ==
    IF StringMissing(input.author) THEN <<"Author name is required">> ELSE <<>>

IsbnErrors(input) ==
    IF StringMissing(input.isbn) THEN <<"ISBN number is required">> ELSE <<>>

DateErrors(input) ==
    CASE CastDate(input.publicationDate).r = "null" ->
            <<"Publication date is required">>
      [] CastDate(input.publicationDate).r = "error" ->
            <<"Cast to date failed at path publicationDate">>
      [] OTHER -> <<>>

ValidationErrors(input) ==
    TitleErrors(input) \o AuthorErrors(input) \o IsbnErrors(input)
        \o DateErrors(input)

\* the four schema paths of a document built from a body that validates
CastFields(input) ==
    [title |-> Trim(input.title.v),
     author |-> Trim(input.author.v),
     isbn |-> Trim(input.isbn.v),
     publicationDate |-> CastDate(input.publicationDate).d]

SchemaPaths == {"title", "author", "isbn", "publicationDate"}

(* ------------------------------------------------------ request bodies *)
TitleInputs ==
    {Undefined, Str(<<>>), Str(<<" ">>), Str(<<"T">>), Str(<<" ", "T">>),
     Str(<<"U">>)}

AuthorInputs == {Undefined, Str(<<" ">>), Str(<<"A">>), Str(<<"A", " ">>)}

IsbnInputs ==
    {Undefined, Str(<<" ">>), Str(<<"X">>), Str(<<" ", "X">>), Str(<<"Y">>),
     Str(<<"Z">>)}

DateInputs ==
    {Undefined, Str(<<>>), Str(<<"x">>), Str(<<"1", "9", "6", "5">>)}

\* a well-formed body
BaseInput ==
    [title |-> Str(<<"T">>), author |-> Str(<<"A">>), isbn |-> Str(<<"X">>),
     publicationDate |-> Str(<<"1", "9", "6", "5">>)]

\* the bodies the clients send: the well-formed one with one field varied
Inputs ==
    {[BaseInput EXCEPT !.title = v] : v \in TitleInputs}
        \cup {[BaseInput EXCEPT !.author = v] : v \in AuthorInputs}
        \cup {[BaseInput EXCEPT !.isbn = v] : v \in IsbnInputs}
        \cup {[BaseInput EXCEPT !.publicationDate = v] : v \in DateInputs}

\* the body of a request that carries none (GET, DELETE)
NoInput ==
    [title |-> Undefined, author |-> Undefined, isbn |-> Undefined,
     publicationDate |-> Undefined]

(* --------------------------------------------------------------- state *)
VARIABLES
    books,      \* the books collection: _id -> document
    nextId,     \* the next ObjectId the store assigns
    now,        \* the server clock, in milliseconds
    reqs,       \* the requests: number -> handler state and, once sent, response
    step,       \* the latest step: the request whose handler ran and the await
                \* it resumed from ("arrive" when the request came in)
    prev,       \* the books collection before the latest step
    app         \* the state of the App component of the one browser client

vars == <<books, nextId, now, reqs, step, prev, app>>

\* null, as findById and findOne return it
Null ==
    [_id |-> BadId, title |-> <<>>, author |-> <<>>, isbn |-> <<>>,
     publicationDate |-> 0, createdAt |-> 0, updatedAt |-> 0]

NoResponse ==
    [status |-> 0, success |-> FALSE, message |-> <<>>, data |-> Null, line |-> 0]

\* a request not yet received; error is the error a failed store call threw
\* into the handler, "" when none did
Idle ==
    [op |-> "idle", pc |-> "idle", id |-> BadId, input |-> NoInput,
     book |-> Null, resp |-> NoResponse, error |-> ""]

\* res.status(status).json({success, message, data}), sent at a line of
\* bookRoutes.js
Response(status, success, message, data, line) ==
    [status |-> status, success |-> success, message |-> message,
     data |-> data, line |-> line]

MsgRequired ==
    <<"Please provide all required fields: title, author, ISBN, and publication date">>

MsgDuplicate == <<"A book with this ISBN already exists">>

MsgNotFound == <<"Book not found">>

MsgAdded == <<"Book added successfully">>

MsgUpdated == <<"Book updated successfully">>

MsgDeleted == <<"Book deleted successfully">>

MsgAddFailed == <<"Failed to add book. Please try again later.">>

MsgUpdateFailed == <<"Failed to update book. Please try again later.">>

MsgDeleteFailed == <<"Failed to delete book. Please try again later.">>

MsgGetFailed == <<"Failed to retrieve book. Please try again later.">>

MsgListFailed == <<"Failed to retrieve books. Please try again later.">>

(* ----------------------------------------------------- store operations *)
\* (mutant) the filter compared as sent, without the path's setters
FindOneUncast(bs, isbn) ==
    IF \E i \in DOMAIN bs : bs[i].isbn = isbn.v
    THEN bs[CHOOSE i \in DOMAIN bs : bs[i].isbn = isbn.v]
    ELSE Null

\* Book.findOne({ isbn }): the filter is cast with the path's setters
FindOne(bs, isbn) ==
    IF \E i \in DOMAIN bs : bs[i].isbn = CastString(isbn).v
    THEN bs[CHOOSE i \in DOMAIN bs : bs[i].isbn = CastString(isbn).v]
    ELSE Null

\* Book.findById(id) for a well-formed id
FindById(bs, id) == IF id \in DOMAIN bs THEN bs[id] ELSE Null

\* (mutant) a collection without the unique index
NoUniqueIndex(bs, id, isbn) == FALSE

\* the unique index on isbn: a write of isbn to document id is refused
\* (E11000) when another document holds it
DuplicateKey(bs, id, isbn) ==
    \E j \in DOMAIN bs : j # id /\ bs[j].isbn = isbn

\* (mutant) the check with `!title` left out
RequiredFieldsMissingButTitle(input) ==
    Falsy(input.author) \/ Falsy(input.isbn) \/ Falsy(input.publicationDate)

\* the handlers' check `!title || !author || !isbn || !publicationDate`
RequiredFieldsMissing(input) ==
    Falsy(input.title) \/ Falsy(input.author) \/ Falsy(input.isbn)
        \/ Falsy(input.publicationDate)

(* ----------------------------------------- the client's App component *)
\* a call of the api service the component has not made yet; kind is the
\* handler that awaits it, settled whether the handler resumed from the await
NoCall == [kind |-> "none", id |-> BadId, input |-> NoInput, settled |-> FALSE]

\* the delay of the setTimeout of showSuccessMessage, in seconds
SuccessDelay == 3

\* the empty form: every input is the empty string
EmptyForm ==
    [title |-> Str(<<>>), author |-> Str(<<>>), isbn |-> Str(<<>>),
     publicationDate |-> Str(<<>>)]

\* the useState initial values of BookForm; formErrors is the set of the
\* fields whose error message is non-empty
FormInit == [formData |-> EmptyForm, isSubmitting |-> FALSE, formErrors |-> {}]

\* the useState initial values of App, before the component mounts, and of
\* the BookForm it renders; timers holds the seconds left until each pending
\* setTimeout callback of showSuccessMessage is due, in the order they were
\* set; sinceShown is the seconds since the latest showSuccessMessage, as far
\* as SuccessDelay, and made the number of calls of the api service so far
AppInit ==
    [mounted |-> FALSE, books |-> <<>>, loading |-> TRUE, error |-> <<>>,
     successMessage |-> <<>>, timers |-> <<>>, editModalOpen |-> FALSE,
     selectedBook |-> Null, calls |-> [r \in Reqs |-> NoCall],
     sinceShown |-> SuccessDelay, made |-> 0, form |-> FormInit]

\* the collections the server can find at start: documents earlier runs
\* inserted, so trimmed, validated and with distinct isbn
InitIsbn(i) == IF i = 1 THEN <<"X">> ELSE [k \in 1..(i - 1) |-> "Y"]

InitBook(i) ==
    [_id |-> i, title |-> <<"T">>, author |-> <<"A">>, isbn |-> InitIsbn(i),
     publicationDate |-> 1965, createdAt |-> 0, updatedAt |-> 0]

Init ==
    /\ \E n \in 0..MaxInitBooks :
          /\ books = [i \in 1..n |-> InitBook(i)]
          /\ nextId = n + 1
    /\ now = 0
    /\ reqs = [r \in Reqs |-> Idle]
    /\ step = [r |-> 0, pc |-> "init"]
    /\ prev = books
    /\ app = AppInit

\* the identifiers a client can put in a path: one the store handed out, a
\* well-formed one it did not, or a malformed one
ReqIds == (1..(nextId - 1)) \cup {NoSuchId, BadId}

\* requests are numbered in the order they arrive
Arrives(r) == reqs[r].op = "idle" /\ \A q \in Reqs : q < r => reqs[q].op # "idle"

At(r, op, pc) == reqs[r].op = op /\ reqs[r].pc = pc

\* a request arrives and its handler runs to an await it does not answer at
Receive(r, op, pc, id, input, book) ==
    /\ reqs' = [reqs EXCEPT ![r] = [Idle EXCEPT !.op = op, !.pc = pc, !.id = id,
                                                !.input = input, !.book = book]]
    /\ step' = [r |-> r, pc |-> "arrive"]

\* a request arrives and its handler answers it by the end of its first await
Finish(r, op, id, input, resp) ==
    /\ reqs' = [reqs EXCEPT ![r] = [Idle EXCEPT !.op = op, !.pc = "done", !.id = id,
                                                !.input = input, !.resp = resp]]
    /\ step' = [r |-> r, pc |-> "arrive"]

Reply(r, resp) ==
    /\ reqs' = [reqs EXCEPT ![r].pc = "done", ![r].resp = resp]
    /\ step' = [r |-> r, pc |-> reqs[r].pc]

Goto(r, pc) ==
    /\ reqs' = [reqs EXCEPT ![r].pc = pc]
    /\ step' = [r |-> r, pc |-> reqs[r].pc]

(* ----------------------------------------------------- POST /api/books *)
\* the handler up to the result of its first store call, Book.findOne
CreateStart(r, input) ==
    /\ Arrives(r)
    /\ IF RequiredFieldsMissing(input)
       THEN Finish(r, "create", BadId, input,
                   Response(400, FALSE, MsgRequired, Null, 78))
       ELSE IF FindOne(books, input.isbn) # Null
       THEN Finish(r, "create", BadId, input,
                   Response(400, FALSE, MsgDuplicate, Null, 87))
       ELSE Receive(r, "create", "create", BadId, input, Null)
    /\ prev' = books
    /\ UNCHANGED app
    /\ UNCHANGED <<books, nextId, now>>

\* (mutant) the document of a schema without the trim setters
NewBookUntrimmed(id, input, t) ==
    [_id |-> id, title |-> input.title.v, author |-> input.author.v,
     isbn |-> input.isbn.v,
     publicationDate |-> CastFields(input).publicationDate,
     createdAt |-> t, updatedAt |-> t]

\* the document Book.create inserts
NewBook(id, input, t) ==
    [_id |-> id, title |-> CastFields(input).title,
     author |-> CastFields(input).author, isbn |-> CastFields(input).isbn,
     publicationDate |-> CastFields(input).publicationDate,
     createdAt |-> t, updatedAt |-> t]

\* (mutant) a catch block that answers with the error's own message
CreateCatchLeaky(error, input) ==
    IF error = "ValidationError"
    THEN Response(400, FALSE, ValidationErrors(input), Null, 113)
    ELSE IF error = "E11000"
    THEN Response(400, FALSE, MsgDuplicate, Null, 121)
    ELSE Response(500, FALSE, <<error>>, Null, 127)

\* the catch block of the POST handler
CreateCatch(error, input) ==
    IF error = "ValidationError"
    THEN Response(400, FALSE, ValidationErrors(input), Null, 113)
    ELSE IF error = "E11000"
    THEN Response(400, FALSE, MsgDuplicate, Null, 121)
    ELSE Response(500, FALSE, MsgAddFailed, Null, 127)

\* (mutant) a handler in which a statement after Book.create throws: the
\* document is inserted and the catch block answers
CreateInsertThenThrow(r) ==
    /\ At(r, "create", "create")
    /\ LET input == reqs[r].input IN
       IF ValidationErrors(input) # <<>>
       THEN /\ Reply(r, CreateCatch("ValidationError", input))
            /\ UNCHANGED <<books, nextId>>
       ELSE IF DuplicateKey(books, nextId, CastFields(input).isbn)
       THEN /\ Reply(r, CreateCatch("E11000", input))
            /\ UNCHANGED <<books, nextId>>
       ELSE /\ books' = (nextId :> NewBook(nextId, input, now)) @@ books
            /\ nextId' = nextId + 1
            /\ Reply(r, CreateCatch("TypeError", input))
    /\ prev' = books
    /\ UNCHANGED app
    /\ UNCHANGED now

CreateInsert(r) ==
    /\ At(r, "create", "create")
    /\ LET input == reqs[r].input IN
       IF ValidationErrors(input) # <<>>
       THEN /\ Reply(r, CreateCatch("ValidationError", input))
            /\ UNCHANGED <<books, nextId>>
       ELSE IF DuplicateKey(books, nextId, CastFields(input).isbn)
       THEN /\ Reply(r, CreateCatch("E11000", input))
            /\ UNCHANGED <<books, nextId>>
       ELSE /\ books' = (nextId :> NewBook(nextId, input, now)) @@ books
            /\ nextId' = nextId + 1
            /\ Reply(r, Response(201, TRUE, MsgAdded, NewBook(nextId, input, now), 102))
    /\ prev' = books
    /\ UNCHANGED app
    /\ UNCHANGED now

(* -------------------------------------------------- PUT /api/books/:id *)
\* the catch block of the PUT handler: one response for every error
UpdateCatch(error, input) == Response(500, FALSE, MsgUpdateFailed, Null, 217)

\* (mutant) a handler that never looks the new isbn up
IsbnNeverChanged(input, book) == FALSE

\* `isbn !== book.isbn`: the body's string against the stored one, no setter
IsbnChanged(input, book) == input.isbn.v # book.isbn

\* (mutant) a handler that loads the book before it checks the body
UpdateStartLookupFirst(r, id, input) ==
    /\ Arrives(r)
    /\ IF id = BadId
       THEN Finish(r, "update", id, input, UpdateCatch("CastError", input))
       ELSE IF FindById(books, id) = Null
       THEN Finish(r, "update", id, input,
                   Response(404, FALSE, MsgNotFound, Null, 186))
       ELSE IF RequiredFieldsMissing(input)
       THEN Finish(r, "update", id, input,
                   Response(400, FALSE, MsgRequired, Null, 176))
       ELSE Receive(r, "update",
                    IF IsbnChanged(input, FindById(books, id)) THEN "findOne" ELSE "save",
                    id, input, FindById(books, id))
    /\ prev' = books
    /\ UNCHANGED app
    /\ UNCHANGED <<books, nextId, now>>

\* the handler up to the result of its first store call, Book.findById
UpdateStart(r, id, input) ==
    /\ Arrives(r)
    /\ IF RequiredFieldsMissing(input)
       THEN Finish(r, "update", id, input,
                   Response(400, FALSE, MsgRequired, Null, 176))
       ELSE IF id = BadId
       THEN Finish(r, "update", id, input, UpdateCatch("CastError", input))
       ELSE IF FindById(books, id) = Null
       THEN Finish(r, "update", id, input,
                   Response(404, FALSE, MsgNotFound, Null, 186))
       ELSE Receive(r, "update",
                    IF IsbnChanged(input, FindById(books, id)) THEN "findOne" ELSE "save",
                    id, input, FindById(books, id))
    /\ prev' = books
    /\ UNCHANGED app
    /\ UNCHANGED <<books, nextId, now>>

UpdateFindOne(r) ==
    /\ At(r, "update", "findOne")
    /\ IF FindOne(books, reqs[r].input.isbn) # Null
       THEN Reply(r, Response(400, FALSE, MsgDuplicate, Null, 196))
       ELSE Goto(r, "save")
    /\ prev' = books
    /\ UNCHANGED app
    /\ UNCHANGED <<books, nextId, now>>

\* the paths the handler's assignments mark modified: those whose cast value
\* differs from the loaded document's
ModifiedPaths(input, book) ==
    {p \in SchemaPaths : CastFields(input)[p] # book[p]}

\* the timestamps plugin's pre-save hook: updatedAt is set when the document
\* has modified paths
Touch(doc, input, book, t) ==
    IF ModifiedPaths(input, book) # {} THEN [doc EXCEPT !.updatedAt = t] ELSE doc

\* a document with the modified paths of the handler's in-memory book set
Assign(doc, input, book) ==
    [f \in DOMAIN doc |->
        IF f \in ModifiedPaths(input, book) THEN CastFields(input)[f] ELSE doc[f]]

\* (mutant) a save whose update is not checked against the unique index
SaveErrorUnchecked(bs, id, input, book) ==
    IF ValidationErrors(input) # <<>> THEN "ValidationError"
    ELSE IF id \notin DOMAIN bs THEN "DocumentNotFoundError"
    ELSE ""

\* (mutant) a save that does not look at how many documents its update matched
SaveErrorUnmatched(bs, id, input, book) ==
    IF ValidationErrors(input) # <<>> THEN "ValidationError"
    ELSE IF /\ "isbn" \in ModifiedPaths(input, book)
            /\ DuplicateKey(bs, id, CastFields(input).isbn)
    THEN "E11000"
    ELSE ""

\* the error book.save() throws, "" when it resolves: it validates, then
\* updates the stored document by _id with the modified paths
SaveError(bs, id, input, book) ==
    IF ValidationErrors(input) # <<>> THEN "ValidationError"
    ELSE IF id \notin DOMAIN bs THEN "DocumentNotFoundError"
    ELSE IF /\ "isbn" \in ModifiedPaths(input, book)
            /\ DuplicateKey(bs, id, CastFields(input).isbn)
    THEN "E11000"
    ELSE ""

UpdateSave(r) ==
    /\ At(r, "update", "save")
    /\ LET q == reqs[r] IN
       IF SaveError(books, q.id, q.input, q.book) # ""
       THEN /\ Reply(r, UpdateCatch(SaveError(books, q.id, q.input, q.book), q.input))
            /\ UNCHANGED books
       ELSE /\ books' = [books EXCEPT ![q.id] =
                            Touch(Assign(books[q.id], q.input, q.book), q.input, q.book, now)]
            /\ Reply(r, Response(200, TRUE, MsgUpdated,
                        Touch(Assign(q.book, q.input, q.book), q.input, q.book, now), 210))
    /\ prev' = books
    /\ UNCHANGED app
    /\ UNCHANGED <<nextId, now>>

(* ----------------------------------------------- DELETE /api/books/:id *)
DeleteStart(r, id) ==
    /\ Arrives(r)
    /\ IF id = BadId
       THEN Finish(r, "delete", id, NoInput,
                   Response(500, FALSE, MsgDeleteFailed, Null, 159))
       ELSE IF FindById(books, id) = Null
       THEN Finish(r, "delete", id, NoInput,
                   Response(404, FALSE, MsgNotFound, Null, 144))
       ELSE Receive(r, "delete", "delete", id, NoInput, Null)
    /\ prev' = books
    /\ UNCHANGED app
    /\ UNCHANGED <<books, nextId, now>>

\* (mutant) a handler that answers without removing the document
DeleteRemoveNothing(r) ==
    /\ At(r, "delete", "delete")
    /\ Reply(r, Response(200, TRUE, MsgDeleted, Null, 153))
    /\ prev' = books
    /\ UNCHANGED app
    /\ UNCHANGED <<books, nextId, now>>

\* Book.findByIdAndDelete(id) resolves to null when the document is gone
DeleteRemove(r) ==
    /\ At(r, "delete", "delete")
    /\ books' = [i \in DOMAIN books \ {reqs[r].id} |-> books[i]]
    /\ Reply(r, Response(200, TRUE, MsgDeleted, Null, 153))
    /\ prev' = books
    /\ UNCHANGED app
    /\ UNCHANGED <<nextId, now>>

(* -------------------------------------------------- GET /api/books/:id *)
GetByIdResponse(bs, id) ==
    IF id = BadId THEN Response(500, FALSE, MsgGetFailed, Null, 59)
    ELSE IF FindById(bs, id) = Null
    THEN Response(404, FALSE, MsgNotFound, Null, 47)
    ELSE Response(200, TRUE, <<>>, FindById(bs, id), 53)

GetById(r, id) ==
    /\ Arrives(r)
    /\ Finish(r, "getById", id, NoInput, GetByIdResponse(books, id))
    /\ prev' = books
    /\ UNCHANGED app
    /\ UNCHANGED <<books, nextId, now>>

(* ------------------------------------------------------ GET /api/books *)
\* the sequences that hold each _id of ids exactly once
Orders(ids) ==
    {s \in [1..Cardinality(ids) -> ids] : \A i \in ids : \E k \in DOMAIN s : s[k] = i}

\* (mutant) find() without the sort: the documents in any order
Unsorted(bs) == Orders(DOMAIN bs)

\* the orders sort({ createdAt: -1 }) can return the documents in: the later
\* createdAt first, documents of one createdAt in an order the store chooses
SortByCreatedAtDesc(bs) ==
    {s \in Orders(DOMAIN bs) :
        \A i \in DOMAIN s : \A j \in DOMAIN s :
            i < j => bs[s[i]].createdAt >= bs[s[j]].createdAt}

\* res.status(200).json({success, count: books.length, data: books})
ListResponse(found) ==
    [status |-> 200, success |-> TRUE, message |-> <<>>, count |-> Len(found),
     data |-> found, line |-> 22]

List(r) ==
    /\ Arrives(r)
    /\ \E order \in SortByCreatedAtDesc(books) :
          Finish(r, "list", BadId, NoInput,
                 ListResponse([k \in DOMAIN order |-> books[order[k]]]))
    /\ prev' = books
    /\ UNCHANGED app
    /\ UNCHANGED <<books, nextId, now>>

(* ----------------------------------------------------------- the clock *)
Tick ==
    /\ now < MaxClock
    /\ now' = now + 1
    /\ step' = [r |-> 0, pc |-> "tick"]
    /\ prev' = books
    /\ UNCHANGED app
    /\ UNCHANGED <<books, nextId, reqs>>

Next ==
    \/ \E r \in Reqs, input \in Inputs : CreateStart(r, input)
    \/ \E r \in Reqs : CreateInsert(r)
    \/ \E r \in Reqs, id \in ReqIds, input \in Inputs : UpdateStart(r, id, input)
    \/ \E r \in Reqs : UpdateFindOne(r)
    \/ \E r \in Reqs : UpdateSave(r)
    \/ \E r \in Reqs, id \in ReqIds : DeleteStart(r, id)
    \/ \E r \in Reqs : DeleteRemove(r)
    \/ \E r \in Reqs, id \in ReqIds : GetById(r, id)
    \/ \E r \in Reqs : List(r)
    \/ Tick

Spec == Init /\ [][Next]_vars

(* ----------------------------------------------------- store failures *)
\* what a store call can reject with when the store cannot be reached or
\* gives up: the error.message the handlers log
StoreErrors == {"connection closed", "buffering timed out"}

DeleteCatch(error) == Response(500, FALSE, MsgDeleteFailed, Null, 159)

GetByIdCatch(error) == Response(500, FALSE, MsgGetFailed, Null, 59)

ListCatch(error) == Response(500, FALSE, MsgListFailed, Null, 30)

\* the catch block of the handler of op
Catch(op, error, input) ==
    CASE op = "create" -> CreateCatch(error, input)
      [] op = "update" -> UpdateCatch(error, input)
      [] op = "delete" -> DeleteCatch(error)
      [] op = "getById" -> GetByIdCatch(error)
      [] op = "list" -> ListCatch(error)

\* the bodies the clients send while the store can fail: the well-formed one,
\* one the handlers' check refuses and one the schema refuses
InputsF ==
    {BaseInput, [BaseInput EXCEPT !.title = Undefined],
     [BaseInput EXCEPT !.author = Str(<<" ">>)]}

\* the requests whose handler gets as far as its first store call
Calls ==
    {[op |-> "create", id |-> BadId, input |-> i] :
        i \in {i \in InputsF : ~RequiredFieldsMissing(i)}}
    \cup {[op |-> "update", id |-> id, input |-> i] :
        id \in ReqIds \ {BadId}, i \in {i \in InputsF : ~RequiredFieldsMissing(i)}}
    \cup {[op |-> op, id |-> id, input |-> NoInput] :
        op \in {"delete", "getById"}, id \in ReqIds \ {BadId}}
    \cup {[op |-> "list", id |-> BadId, input |-> NoInput]}

\* a request arrives and the first store call of its handler (findOne,
\* findById, find) rejects: the store is as it was, the catch block answers
FirstCallFails(r, call, error) ==
    /\ Arrives(r)
    /\ reqs' = [reqs EXCEPT ![r] =
                    [Idle EXCEPT !.op = call.op, !.pc = "done", !.id = call.id,
                                 !.input = call.input, !.error = error,
                                 !.resp = Catch(call.op, error, call.input)]]
    /\ step' = [r |-> r, pc |-> "arrive"]
    /\ prev' = books
    /\ UNCHANGED app
    /\ UNCHANGED <<books, nextId, now>>

\* (mutant) a handler whose later store calls are outside the try block: the
\* rejection is not caught and no response is sent
LaterCallFailsUncaught(r, error) ==
    /\ reqs[r].pc \in {"create", "findOne", "save", "delete"}
    /\ reqs[r].pc \in {"create", "save"} => ValidationErrors(reqs[r].input) = <<>>
    /\ reqs' = [reqs EXCEPT ![r].pc = "thrown", ![r].error = error]
    /\ step' = [r |-> r, pc |-> reqs[r].pc]
    /\ prev' = books
    /\ UNCHANGED app
    /\ UNCHANGED <<books, nextId, now>>

\* a later store call of a handler (create, findOne, save, findByIdAndDelete)
\* rejects; create and save reach the store only with a document that
\* validates
LaterCallFails(r, error) ==
    /\ reqs[r].pc \in {"create", "findOne", "save", "delete"}
    /\ reqs[r].pc \in {"create", "save"} => ValidationErrors(reqs[r].input) = <<>>
    /\ reqs' = [reqs EXCEPT ![r].pc = "done", ![r].error = error,
                            ![r].resp = Catch(reqs[r].op, error, reqs[r].input)]
    /\ step' = [r |-> r, pc |-> reqs[r].pc]
    /\ prev' = books
    /\ UNCHANGED app
    /\ UNCHANGED <<books, nextId, now>>

NextF ==
    \/ \E r \in Reqs, input \in InputsF : CreateStart(r, input)
    \/ \E r \in Reqs : CreateInsert(r)
    \/ \E r \in Reqs, id \in ReqIds, input \in InputsF : UpdateStart(r, id, input)
    \/ \E r \in Reqs : UpdateFindOne(r)
    \/ \E r \in Reqs : UpdateSave(r)
    \/ \E r \in Reqs, id \in ReqIds : DeleteStart(r, id)
    \/ \E r \in Reqs : DeleteRemove(r)
    \/ \E r \in Reqs, id \in ReqIds : GetById(r, id)
    \/ \E r \in Reqs : List(r)
    \/ Tick
    \/ \E r \in Reqs, call \in Calls, error \in StoreErrors :
          FirstCallFails(r, call, error)
    \/ \E r \in Reqs, error \in StoreErrors : LaterCallFails(r, error)

\* the handler of request r resumes from the await it is at
Resumes(r) ==
    \/ CreateInsert(r)
    \/ UpdateFindOne(r)
    \/ UpdateSave(r)
    \/ DeleteRemove(r)
    \/ \E error \in StoreErrors : LaterCallFails(r, error)

\* the service with a store that can fail: every store call a handler awaits
\* resolves or rejects
SpecF == Init /\ [][NextF]_vars /\ \A r \in Reqs : WF_vars(Resumes(r))

(* ------------------------------------------------- the browser client *)
\* the bodies BookForm and EditModal submit
ClientInputs ==
    {BaseInput, [BaseInput EXCEPT !.title = Str(<<"U">>)],
     [BaseInput EXCEPT !.isbn = Str(<<"Y">>)]}

\* calls are numbered in the order the component makes them, and reach the
\* server in that order
Issues(r) ==
    /\ app.made < MaxCalls
    /\ app.calls[r].kind = "none"
    /\ \A q \in Reqs : q < r => app.calls[q].kind # "none"

\* the response of call r has come back and its handler has not resumed yet
Returned(r, kind) ==
    /\ app.calls[r].kind = kind /\ ~app.calls[r].settled
    /\ reqs[r].pc = "done"

Call(kind, id, input) ==
    [kind |-> kind, id |-> id, input |-> input, settled |-> FALSE]

\* a step of the component: the server is as it was
ClientStep(a) ==
    /\ app' = a
    /\ step' = [r |-> 0, pc |-> "client"]
    /\ prev' = books
    /\ UNCHANGED <<books, nextId, now, reqs>>

\* showSuccessMessage: set the message and schedule its removal
ShowSuccessMessage(a, message) ==
    [a EXCEPT !.successMessage = message, !.sinceShown = 0,
              !.timers = Append(@, SuccessDelay)]

\* the setTimeout callback of showSuccessMessage
TimeoutFires ==
    /\ app.timers # <<>>
    /\ Head(app.timers) = 0
    /\ ClientStep([app EXCEPT !.successMessage = <<>>, !.timers = Tail(@)])

\* a second passes in the browser while a timer runs or the latest message
\* is younger than SuccessDelay; a callback that is due may run late
ClockTick ==
    /\ \/ app.sinceShown < SuccessDelay
       \/ \E k \in DOMAIN app.timers : app.timers[k] > 0
    /\ ClientStep([app EXCEPT
          !.sinceShown = IF @ < SuccessDelay THEN @ + 1 ELSE @,
          !.timers = [k \in DOMAIN @ |-> IF @[k] > 0 THEN @[k] - 1 ELSE 0]])

\* the handler of a call that succeeded has returned: nothing refers to the
\* call or its response any more (every call made has reached the server)
Forget(r) ==
    /\ app.calls[r].settled /\ reqs[r].resp.success
    /\ \A q \in Reqs : app.calls[q].kind # "none" => reqs[q].op # "idle"
    /\ app' = [app EXCEPT !.calls[r] = NoCall]
    /\ reqs' = [reqs EXCEPT ![r] = Idle]
    /\ step' = [r |-> 0, pc |-> "client"]
    /\ prev' = books
    /\ UNCHANGED <<books, nextId, now>>

\* useEffect on mount: fetchBooks up to `await getBooks()`
Mount(r) ==
    /\ ~app.mounted /\ Issues(r)
    /\ ClientStep([app EXCEPT !.mounted = TRUE, !.loading = TRUE, !.error = <<>>,
                              !.made = @ + 1,
                              !.calls[r] = Call("fetchBooks", BadId, NoInput)])

\* fetchBooks from the await on
FetchBooksSettled(r) ==
    /\ Returned(r, "fetchBooks")
    /\ ClientStep(
          IF reqs[r].resp.success
          THEN [app EXCEPT !.books = reqs[r].resp.data, !.loading = FALSE,
                           !.calls[r].settled = TRUE]
          ELSE [app EXCEPT !.error =
                             <<"Failed to load books. Please check your connection and try again.">>,
                           !.loading = FALSE, !.calls[r].settled = TRUE])

\* handleAddBook up to `await addBook(bookData)`
HandleAddBook(r, bookData) ==
    /\ app.mounted /\ Issues(r)
    /\ ClientStep([app EXCEPT !.error = <<>>, !.made = @ + 1,
                              !.calls[r] = Call("addBook", BadId, bookData)])

\* the state handleAddBook leaves from the await on
AddBookResumed(r) ==
    IF reqs[r].resp.success
    THEN ShowSuccessMessage(
            [app EXCEPT !.books = <<reqs[r].resp.data>> \o @,
                        !.calls[r].settled = TRUE],
            <<"Book added successfully!">>)
    ELSE [app EXCEPT !.error = reqs[r].resp.message,
                     !.calls[r].settled = TRUE]

\* handleAddBook from the await on
AddBookSettled(r) ==
    /\ Returned(r, "addBook")
    /\ ClientStep(AddBookResumed(r))

\* the books the list shows a card of
Cards == IF app.loading THEN {} ELSE {app.books[k] : k \in DOMAIN app.books}

\* handleDeleteBook up to `await deleteBook(id)`, from a card's button
HandleDeleteBook(r, id) ==
    /\ \E book \in Cards : book._id = id
    /\ Issues(r)
    /\ ClientStep([app EXCEPT !.error = <<>>, !.made = @ + 1,
                              !.calls[r] = Call("deleteBook", id, NoInput)])

\* prevBooks.filter(book => book._id !== id)
Filter(bs, id) ==
    LET F[k \in 0..Len(bs)] ==
            IF k = 0 THEN <<>>
            ELSE IF bs[k]._id # id THEN Append(F[k - 1], bs[k]) ELSE F[k - 1]
    IN F[Len(bs)]

\* handleDeleteBook from the await on
DeleteBookSettled(r) ==
    /\ Returned(r, "deleteBook")
    /\ ClientStep(
          IF reqs[r].resp.success
          THEN ShowSuccessMessage(
                  [app EXCEPT !.books = Filter(@, app.calls[r].id),
                              !.calls[r].settled = TRUE],
                  <<"Book deleted successfully!">>)
          ELSE [app EXCEPT !.error = <<"Failed to delete book. Please try again.">>,
                           !.calls[r].settled = TRUE])

\* handleOpenEditModal, from a card's button
HandleOpenEditModal(book) ==
    /\ book \in Cards
    /\ ClientStep([app EXCEPT !.selectedBook = book, !.editModalOpen = TRUE])

\* the onClose of the EditModal
CloseEditModal ==
    /\ app.editModalOpen
    /\ ClientStep([app EXCEPT !.editModalOpen = FALSE, !.selectedBook = Null])

\* handleUpdateBook up to `await updateBook(selectedBook._id, bookData)`,
\* from the form of the EditModal
HandleUpdateBook(r, bookData) ==
    /\ app.editModalOpen /\ Issues(r)
    /\ ClientStep([app EXCEPT !.error = <<>>, !.made = @ + 1,
                              !.calls[r] = Call("updateBook", app.selectedBook._id, bookData)])

\* handleUpdateBook from the await on, were it to leave selectedBook set
UpdateBookSettledKeepsSelected(r) ==
    /\ Returned(r, "updateBook")
    /\ ClientStep(
          IF reqs[r].resp.success
          THEN ShowSuccessMessage(
                  [app EXCEPT !.books =
                                 [k \in DOMAIN @ |->
                                     IF @[k]._id = app.calls[r].id
                                     THEN reqs[r].resp.data ELSE @[k]],
                              !.editModalOpen = FALSE,
                              !.calls[r].settled = TRUE],
                  <<"Book updated successfully!">>)
          ELSE [app EXCEPT !.error = reqs[r].resp.message,
                           !.calls[r].settled = TRUE])

\* handleUpdateBook from the await on; selectedBook is the one of the render
\* the handler was called in
UpdateBookSettled(r) ==
    /\ Returned(r, "updateBook")
    /\ ClientStep(
          IF reqs[r].resp.success
          THEN ShowSuccessMessage(
                  [app EXCEPT !.books =
                                 [k \in DOMAIN @ |->
                                     IF @[k]._id = app.calls[r].id
                                     THEN reqs[r].resp.data ELSE @[k]],
                              !.editModalOpen = FALSE, !.selectedBook = Null,
                              !.calls[r].settled = TRUE],
                  <<"Book updated successfully!">>)
          ELSE [app EXCEPT !.error = reqs[r].resp.message,
                           !.calls[r].settled = TRUE])

\* the server receives call r of the client
Serves(r) ==
    \/ app.calls[r].kind = "fetchBooks" /\ List(r)
    \/ app.calls[r].kind = "addBook" /\ CreateStart(r, app.calls[r].input)
    \/ app.calls[r].kind = "deleteBook" /\ DeleteStart(r, app.calls[r].id)
    \/ /\ app.calls[r].kind = "updateBook"
       /\ UpdateStart(r, app.calls[r].id, app.calls[r].input)

NextC ==
    \/ \E r \in Reqs : Mount(r)
    \/ \E r \in Reqs : FetchBooksSettled(r)
    \/ \E r \in Reqs, bookData \in ClientInputs : HandleAddBook(r, bookData)
    \/ \E r \in Reqs : AddBookSettled(r)
    \/ \E r \in Reqs, id \in Ids : HandleDeleteBook(r, id)
    \/ \E r \in Reqs : DeleteBookSettled(r)
    \/ \E book \in Cards : HandleOpenEditModal(book)
    \/ CloseEditModal
    \/ \E r \in Reqs, bookData \in ClientInputs : HandleUpdateBook(r, bookData)
    \/ \E r \in Reqs : UpdateBookSettled(r)
    \/ TimeoutFires
    \/ ClockTick
    \/ \E r \in Reqs : Serves(r)
    \/ \E r \in Reqs : CreateInsert(r)
    \/ \E r \in Reqs : UpdateFindOne(r)
    \/ \E r \in Reqs : UpdateSave(r)
    \/ \E r \in Reqs : DeleteRemove(r)
    \/ Tick

\* one browser client and the server, no other writer to the store
SpecC == Init /\ [][NextC]_vars

(* ------------------------------------------- the BookForm of the client *)
FormFields == {"title", "author", "isbn", "publicationDate"}

\* what the user types into each input of the form
FormValues(name) ==
    CASE name = "title" -> {Str(<<>>), Str(<<" ">>), Str(<<"T">>)}
      [] name = "author" -> {Str(<<>>), Str(<<"A">>)}
      [] name = "isbn" -> {Str(<<>>), Str(<<"X">>), Str(<<"Y">>)}
      [] name = "publicationDate" -> {Str(<<>>), Str(<<"1", "9", "6", "5">>)}

\* handleInputChange; the inputs are disabled while isSubmitting
HandleInputChange(name, value) ==
    /\ ~app.form.isSubmitting
    /\ value # app.form.formData[name]
    /\ ClientStep([app EXCEPT !.form.formData[name] = value,
                              !.form.formErrors = @ \ {name}])

\* validateForm without the trim
FormErrorsUntrimmed(formData) == {name \in FormFields : formData[name].v = <<>>}

\* the errors validateForm finds
FormErrors(formData) ==
    {name \in {"title", "author", "isbn"} : Trim(formData[name].v) = <<>>}
        \cup {name \in {"publicationDate"} : Falsy(formData[name])}

\* handleSubmit up to `await onAddBook(formData)`, handleAddBook up to its
\* await included; the submit button is disabled while isSubmitting
HandleSubmit(r) ==
    /\ app.mounted /\ ~app.form.isSubmitting
    /\ IF FormErrors(app.form.formData) # {}
       THEN ClientStep([app EXCEPT !.form.formErrors = FormErrors(app.form.formData)])
       ELSE /\ Issues(r)
            /\ ClientStep([app EXCEPT
                  !.form.formErrors = {}, !.form.isSubmitting = TRUE,
                  !.error = <<>>, !.made = @ + 1,
                  !.calls[r] = Call("addBook", BadId, app.form.formData)])

\* handleAddBook from its await on, then handleSubmit from its await on
SubmitSettled(r) ==
    /\ Returned(r, "addBook")
    /\ ClientStep([AddBookResumed(r) EXCEPT
          !.form.formData = IF reqs[r].resp.success THEN EmptyForm ELSE @,
          !.form.isSubmitting = FALSE])

\* handleReset; the button is disabled while isSubmitting
HandleReset ==
    /\ ~app.form.isSubmitting
    /\ ClientStep([app EXCEPT !.form.formData = EmptyForm, !.form.formErrors = {}])

\* the server receives call r of the form's client
ServesForm(r) ==
    \/ app.calls[r].kind = "fetchBooks" /\ List(r)
    \/ app.calls[r].kind = "addBook" /\ CreateStart(r, app.calls[r].input)

NextB ==
    \/ \E r \in Reqs : Mount(r)
    \/ \E r \in Reqs : FetchBooksSettled(r)
    \/ \E name \in FormFields : \E value \in FormValues(name) :
          HandleInputChange(name, value)
    \/ \E r \in Reqs : HandleSubmit(r)
    \/ \E r \in Reqs : SubmitSettled(r)
    \/ HandleReset
    \/ \E r \in Reqs : Forget(r)
    \/ \E r \in Reqs : ServesForm(r)
    \/ \E r \in Reqs : CreateInsert(r)

\* the same with the browser's clock: the success messages time out
NextT ==
    \/ NextB
    \/ TimeoutFires
    \/ ClockTick

SpecT == Init /\ [][NextT]_vars

\* the client with its add form and the server: a call that was made reaches
\* the server, the handler's store call resolves, and the response comes back
SpecB ==
    /\ Init /\ [][NextB]_vars
    /\ \A r \in Reqs : WF_vars(ServesForm(r))
    /\ \A r \in Reqs : WF_vars(CreateInsert(r))
    /\ \A r \in Reqs : WF_vars(SubmitSettled(r))

(* ------------------------------------------------------------------- *)
(* Vocabulary of the properties                                          *)
(* ------------------------------------------------------------------- *)
StringPaths == {"title", "author", "isbn"}

\* a body field the client left out or sent as ''
AbsentOrEmpty(x) == x = Undefined \/ x = Str(<<>>)

SomeFieldAbsentOrEmpty(input) == \E p \in SchemaPaths : AbsentOrEmpty(input[p])

AllFieldsPresent(input) == \A p \in SchemaPaths : ~AbsentOrEmpty(input[p])

Blank(x) == \A i \in 1..Len(x.v) : x.v[i] = " "

\* a body the schema accepts: text with something but whitespace in it, and
\* a date
WellFormed(input) ==
    /\ \A p \in StringPaths : input[p].t = "string" /\ ~Blank(input[p])
    /\ input.publicationDate.t = "string"
    /\ IsDateString(input.publicationDate.v)

\* the _ids of the books of bs that hold isbn
Holders(bs, isbn) == {i \in DOMAIN bs : bs[i].isbn = isbn}

\* the handler of request r ran in the latest step
Ran(r, op) == step.r = r /\ reqs[r].op = op

\* the latest step sent the response of request r
Answered(r, op) == Ran(r, op) /\ reqs[r].pc = "done"

SchemaMessages ==
    {"Book title is required", "Author name is required",
     "ISBN number is required", "Publication date is required",
     "Cast to date failed at path publicationDate"}

IsDuplicateIsbn(resp) ==
    resp.status = 400 /\ ~resp.success /\ resp.message = MsgDuplicate

IsValidationError(resp) ==
    /\ resp.status = 400 /\ ~resp.success
    /\ \/ resp.message = MsgRequired
       \/ /\ resp.message # <<>>
          /\ \A i \in 1..Len(resp.message) : resp.message[i] \in SchemaMessages

IsNotFound(resp) ==
    resp.status = 404 /\ ~resp.success /\ resp.message = MsgNotFound

(* ------------------------------------------------------------------- *)
(* C1                                                                    *)
(* ------------------------------------------------------------------- *)
\* C1: in every reachable state, whatever the interleaving of the create,
\* update and delete requests, no two books of the collection have the same
\* isbn.
C1_UniqueIsbn ==
    \A i \in DOMAIN books : \A j \in DOMAIN books :
        i # j => books[i].isbn # books[j].isbn

\* a write refused by the unique index: the collection is unchanged and still
\* holds the isbn the request asked for, on another book
C1_Witness ==
    \E r \in Reqs :
        /\ reqs[r].pc = "done" /\ step.r = r /\ step.pc \in {"create", "save"}
        /\ ~reqs[r].resp.success
        /\ WellFormed(reqs[r].input)
        /\ Holders(books, Trim(reqs[r].input.isbn.v)) \ {reqs[r].id} # {}
        /\ Cardinality(DOMAIN books) >= 2

(* ------------------------------------------------------------------- *)
(* C2                                                                    *)
(* ------------------------------------------------------------------- *)
\* C2: a create that comes in with its four fields present and an isbn (as
\* sent, or once trimmed) that a book already holds is answered DuplicateIsbn
\* (400, success false, the ISBN message) by the handler's lookup, and the
\* collection has as many books after as before.
C2_CreateDuplicate ==
    \A r \in Reqs :
        ( /\ Ran(r, "create") /\ step.pc = "arrive"
          /\ AllFieldsPresent(reqs[r].input)
          /\ Holders(prev, Trim(reqs[r].input.isbn.v)) # {} )
        => /\ reqs[r].pc = "done"
           /\ IsDuplicateIsbn(reqs[r].resp)
           /\ Cardinality(DOMAIN books) = Cardinality(DOMAIN prev)

C2_Witness ==
    \E r \in Reqs :
        /\ Answered(r, "create") /\ step.pc = "arrive"
        /\ AllFieldsPresent(reqs[r].input)
        /\ Holders(prev, reqs[r].input.isbn.v) # {}
        /\ IsDuplicateIsbn(reqs[r].resp)

(* ------------------------------------------------------------------- *)
(* C3                                                                    *)
(* ------------------------------------------------------------------- *)
\* the answered creates of isbn that got past the lookup: they were answered
\* from Book.create, not from the handler's own checks (lines 78 and 87)
PastLookup(isbn) ==
    {r \in Reqs :
        /\ reqs[r].op = "create" /\ reqs[r].pc = "done"
        /\ WellFormed(reqs[r].input)
        /\ Trim(reqs[r].input.isbn.v) = isbn
        /\ reqs[r].resp.line \notin {78, 87}}

OnlyCreates == \A r \in Reqs : reqs[r].op \in {"idle", "create"}

\* C3: when creates with valid bodies and the same fresh isbn all pass the
\* lookup (no other kind of request is around), exactly one of them is
\* answered 201, every other one DuplicateIsbn (400), and exactly one book
\* with that isbn is in the collection.
C3_CreateRace ==
    OnlyCreates =>
        \A r \in Reqs :
            LET isbn == Trim(reqs[r].input.isbn.v) IN
            r \in PastLookup(isbn) =>
                /\ Cardinality({q \in PastLookup(isbn) : reqs[q].resp.status = 201}) = 1
                /\ \A q \in PastLookup(isbn) :
                      reqs[q].resp.status = 201 \/ IsDuplicateIsbn(reqs[q].resp)
                /\ Cardinality(Holders(books, isbn)) = 1

C3_Witness ==
    /\ OnlyCreates
    /\ \E r \in Reqs : \E q \in Reqs \ {r} :
          /\ r \in PastLookup(Trim(reqs[r].input.isbn.v))
          /\ q \in PastLookup(Trim(reqs[r].input.isbn.v))
          /\ reqs[r].resp.status = 201
          /\ IsDuplicateIsbn(reqs[q].resp)

(* ------------------------------------------------------------------- *)
(* C4                                                                    *)
(* ------------------------------------------------------------------- *)
\* the response carries a book with these four fields, and getById with its
\* identifier returns that book
Created(resp, title, author, isbn, date) ==
    /\ resp.status = 201 /\ resp.success
    /\ resp.data.title = title
    /\ resp.data.author = author
    /\ resp.data.isbn = isbn
    /\ resp.data.publicationDate = date
    /\ GetByIdResponse(books, resp.data._id).status = 200
    /\ GetByIdResponse(books, resp.data._id).data = resp.data

\* C4 as claimed: a create whose four fields are present and whose isbn no
\* book holds is answered 201 with a book whose title, author and isbn are
\* the body's and whose publicationDate is the body's date, and getById with
\* the returned identifier returns that book.
C4_Claimed ==
    \A r \in Reqs :
        ( /\ Answered(r, "create")
          /\ AllFieldsPresent(reqs[r].input)
          /\ Holders(prev, reqs[r].input.isbn.v) = {} )
        => /\ IsDateString(reqs[r].input.publicationDate.v)
           /\ Created(reqs[r].resp, reqs[r].input.title.v, reqs[r].input.author.v,
                      reqs[r].input.isbn.v,
                      DateValue(reqs[r].input.publicationDate.v))

\* C4 (amended): a create whose title, author and isbn have something but
\* whitespace in them, whose publicationDate is a date, and whose trimmed isbn
\* no book holds gets past the lookup and is answered 201 with a book whose
\* title, author and isbn are the body's trimmed of surrounding whitespace and
\* whose publicationDate is the body's date; getById with the returned
\* identifier returns that book.
C4_CreateStoresTrimmed ==
    \A r \in Reqs :
        ( /\ Ran(r, "create")
          /\ WellFormed(reqs[r].input)
          /\ Holders(prev, Trim(reqs[r].input.isbn.v)) = {} )
        => IF step.pc = "arrive"
           THEN reqs[r].pc = "create" /\ books = prev
           ELSE /\ reqs[r].pc = "done"
                /\ Created(reqs[r].resp, Trim(reqs[r].input.title.v),
                           Trim(reqs[r].input.author.v), Trim(reqs[r].input.isbn.v),
                           DateValue(reqs[r].input.publicationDate.v))

\* a create answered 201 whose stored title is not the title the body sent
C4_Witness ==
    \E r \in Reqs :
        /\ Answered(r, "create")
        /\ reqs[r].resp.status = 201
        /\ reqs[r].resp.data.title # reqs[r].input.title.v
        /\ reqs[r].resp.data._id \in DOMAIN books

(* ------------------------------------------------------------------- *)
(* C5                                                                    *)
(* ------------------------------------------------------------------- *)
\* C5: a create in whose body at least one of title, author, isbn and
\* publicationDate is absent or empty is answered ValidationError (400,
\* success false) as it comes in, and the collection holds exactly the same
\* books after as before.
C5_CreateMissingField ==
    \A r \in Reqs :
        (Ran(r, "create") /\ SomeFieldAbsentOrEmpty(reqs[r].input))
        => /\ reqs[r].pc = "done"
           /\ IsValidationError(reqs[r].resp)
           /\ books = prev

\* such a create, of an isbn that a book holds, refused for the missing field
C5_Witness ==
    \E r \in Reqs :
        /\ Answered(r, "create")
        /\ SomeFieldAbsentOrEmpty(reqs[r].input)
        /\ reqs[r].input.isbn.t = "string"
        /\ Holders(books, reqs[r].input.isbn.v) # {}
        /\ IsValidationError(reqs[r].resp)

(* ------------------------------------------------------------------- *)
(* C6                                                                    *)
(* ------------------------------------------------------------------- *)
\* an update that comes in for a well-formed id no book has
UpdateOfAbsent(r) ==
    /\ Ran(r, "update") /\ step.pc = "arrive"
    /\ reqs[r].id # BadId
    /\ reqs[r].id \notin DOMAIN prev

\* C6 as claimed: an update on an id that matches no book is answered
\* NotFound (404) whatever the body, also when required fields are missing
\* or empty.
C6_Claimed ==
    \A r \in Reqs :
        UpdateOfAbsent(r) => reqs[r].pc = "done" /\ IsNotFound(reqs[r].resp)

\* C6 (amended): an update on a well-formed id that matches no book is
\* answered NotFound (404) when the four fields of its body are present and
\* non-empty, and ValidationError (400) when one is absent or empty: the body
\* is checked before the book is looked up.  The collection is unchanged.
C6_UpdateAbsent ==
    \A r \in Reqs :
        UpdateOfAbsent(r)
        => /\ reqs[r].pc = "done"
           /\ books = prev
           /\ IF SomeFieldAbsentOrEmpty(reqs[r].input)
              THEN IsValidationError(reqs[r].resp)
              ELSE IsNotFound(reqs[r].resp)

\* an update of a deleted book's id, answered NotFound
C6_Witness ==
    \E r \in Reqs :
        /\ UpdateOfAbsent(r)
        /\ reqs[r].id < nextId
        /\ IsNotFound(reqs[r].resp)

(* ------------------------------------------------------------------- *)
(* C7                                                                    *)
(* ------------------------------------------------------------------- *)
\* C7: an update of an existing book whose body has the four fields and an
\* isbn that is not the book's goes on to look the isbn up, and when a
\* different book holds it the update is answered DuplicateIsbn (400); the
\* targeted book (title, author, isbn, publicationDate, updatedAt) and every
\* other book are the same after as before.
C7_UpdateDuplicate ==
    \A r \in Reqs :
        (Ran(r, "update") /\ AllFieldsPresent(reqs[r].input))
        => /\ ( /\ step.pc = "arrive"
                /\ reqs[r].id \in DOMAIN prev
                /\ reqs[r].input.isbn.v # prev[reqs[r].id].isbn )
              => reqs[r].pc = "findOne" /\ books = prev
           /\ ( /\ step.pc = "findOne"
                /\ Holders(prev, reqs[r].input.isbn.v) \ {reqs[r].id} # {} )
              => /\ reqs[r].pc = "done"
                 /\ IsDuplicateIsbn(reqs[r].resp)
                 /\ books = prev

C7_Witness ==
    \E r \in Reqs :
        /\ Answered(r, "update") /\ step.pc = "findOne"
        /\ reqs[r].id \in DOMAIN books
        /\ Holders(books, reqs[r].input.isbn.v) \ {reqs[r].id} # {}
        /\ IsDuplicateIsbn(reqs[r].resp)

(* ------------------------------------------------------------------- *)
(* C8                                                                    *)
(* ------------------------------------------------------------------- *)
\* C8: an update of an existing book, with a body the schema accepts, that is
\* refused because another book holds its new isbn is answered DuplicateIsbn
\* (400), whether the handler's lookup or, after a concurrent create or
\* update took the isbn, the unique index at save time finds the collision.
C8_Claimed ==
    \A r \in Reqs :
        ( /\ Answered(r, "update")
          /\ step.pc \in {"findOne", "save"}
          /\ WellFormed(reqs[r].input)
          /\ reqs[r].id \in DOMAIN prev
          /\ Holders(prev, Trim(reqs[r].input.isbn.v)) \ {reqs[r].id} # {}
          /\ ~reqs[r].resp.success )
        => IsDuplicateIsbn(reqs[r].resp)

(* ------------------------------------------------------------------- *)
(* C9                                                                    *)
(* ------------------------------------------------------------------- *)
\* the bodies create answers ValidationError to (given an isbn no book
\* holds): the handler's check or the schema's validation refuses them
CreateRefusesBody(input) == SomeFieldAbsentOrEmpty(input) \/ ~WellFormed(input)

\* C9: an update of an existing book is answered ValidationError (400)
\* exactly when its body is one create answers ValidationError to, the bodies
\* that pass the handler's check and fail the schema's validation included.
C9_Claimed ==
    \A r \in Reqs :
        ( /\ Answered(r, "update")
          /\ reqs[r].id \in DOMAIN prev
          /\ step.pc \in {"arrive", "save"} )
        => (IsValidationError(reqs[r].resp) <=> CreateRefusesBody(reqs[r].input))

(* ------------------------------------------------------------------- *)
(* C10                                                                   *)
(* ------------------------------------------------------------------- *)
\* C10: an update of an existing book (no other request changed it meanwhile)
\* with a body the schema accepts whose isbn, trimmed, is the book's own or
\* held by no book is answered 200; afterwards the book's title, author, isbn
\* and publicationDate are the body's, its updatedAt is the time of the save,
\* its identifier and createdAt are unchanged, and so is every other book.
C10_Claimed ==
    \A r \in Reqs :
        ( /\ Answered(r, "update")
          /\ reqs[r].id \in DOMAIN prev
          /\ prev[reqs[r].id] = reqs[r].book
          /\ WellFormed(reqs[r].input)
          /\ Holders(prev, Trim(reqs[r].input.isbn.v)) \ {reqs[r].id} = {} )
        => /\ reqs[r].resp.status = 200
           /\ DOMAIN books = DOMAIN prev
           /\ \A i \in DOMAIN books \ {reqs[r].id} : books[i] = prev[i]
           /\ books[reqs[r].id].title = Trim(reqs[r].input.title.v)
           /\ books[reqs[r].id].author = Trim(reqs[r].input.author.v)
           /\ books[reqs[r].id].isbn = Trim(reqs[r].input.isbn.v)
           /\ books[reqs[r].id].publicationDate
                = DateValue(reqs[r].input.publicationDate.v)
           /\ books[reqs[r].id].updatedAt = now
           /\ books[reqs[r].id]._id = prev[reqs[r].id]._id
           /\ books[reqs[r].id].createdAt = prev[reqs[r].id].createdAt

(* ------------------------------------------------------------------- *)
(* C11                                                                   *)
(* ------------------------------------------------------------------- *)
\* the ids of the deletes that were answered 200 before request r came in
DeletedBefore(r) ==
    {reqs[q].id : q \in {q \in Reqs \ {r} :
        reqs[q].op = "delete" /\ reqs[q].pc = "done" /\ reqs[q].resp.success}}

\* C11: a delete answered 200 leaves the collection without the book of its
\* id and with every other book as it was; a getById or a delete that comes
\* in for that id after the 200 is answered NotFound (404).
C11_DeleteThenNotFound ==
    \A r \in Reqs :
        /\ (Answered(r, "delete") /\ reqs[r].resp.success)
           => /\ DOMAIN books = DOMAIN prev \ {reqs[r].id}
              /\ \A i \in DOMAIN books : books[i] = prev[i]
        /\ ( /\ Ran(r, "getById") \/ Ran(r, "delete")
             /\ step.pc = "arrive"
             /\ reqs[r].id \in DeletedBefore(r) )
           => reqs[r].pc = "done" /\ IsNotFound(reqs[r].resp)

\* a getById of a deleted book's id, answered NotFound while another book is
\* still in the collection
C11_Witness ==
    \E r \in Reqs :
        /\ Answered(r, "getById") /\ step.pc = "arrive"
        /\ reqs[r].id \in DeletedBefore(r)
        /\ IsNotFound(reqs[r].resp)
        /\ DOMAIN books # {}

(* ------------------------------------------------------------------- *)
(* C12                                                                   *)
(* ------------------------------------------------------------------- *)
\* the list holds every book of the collection exactly once, as stored, and
\* count is its length
ListsEveryBookOnce(resp) ==
    /\ resp.status = 200 /\ resp.success
    /\ resp.count = Len(resp.data)
    /\ Len(resp.data) = Cardinality(DOMAIN books)
    /\ \A i \in DOMAIN books : \E k \in DOMAIN resp.data : resp.data[k] = books[i]

\* C12 as claimed: list returns every book exactly once with count the
\* length of data, and of two books the one created later (the store hands
\* out _ids in the order of creation) comes before the one created earlier.
C12_Claimed ==
    \A r \in Reqs :
        Answered(r, "list")
        => /\ ListsEveryBookOnce(reqs[r].resp)
           /\ \A i \in DOMAIN reqs[r].resp.data : \A j \in DOMAIN reqs[r].resp.data :
                 i < j => reqs[r].resp.data[i]._id > reqs[r].resp.data[j]._id

\* C12 (amended): list returns every book exactly once with count the
\* length of data, in the order of createdAt descending: a book with a later
\* createdAt comes before a book with an earlier one (books created within
\* one millisecond come in an order the store chooses); an update leaves a
\* book's createdAt, so its place among the others, as it was.
C12_ListSorted ==
    \A r \in Reqs :
        /\ Answered(r, "list")
           => /\ ListsEveryBookOnce(reqs[r].resp)
              /\ \A i \in DOMAIN reqs[r].resp.data : \A j \in DOMAIN reqs[r].resp.data :
                    reqs[r].resp.data[i].createdAt > reqs[r].resp.data[j].createdAt
                    => i < j
        /\ (Answered(r, "update") /\ reqs[r].id \in DOMAIN books)
           => /\ reqs[r].id \in DOMAIN prev
              /\ books[reqs[r].id].createdAt = prev[reqs[r].id].createdAt

\* a list of three books: one created in a later millisecond, first, and two
\* created within one millisecond
C12_Witness ==
    \E r \in Reqs :
        /\ Answered(r, "list")
        /\ Len(reqs[r].resp.data) = 3
        /\ reqs[r].resp.data[1].createdAt > reqs[r].resp.data[2].createdAt
        /\ reqs[r].resp.data[2].createdAt = reqs[r].resp.data[3].createdAt

(* ------------------------------------------------------------------- *)
(* C13                                                                   *)
(* ------------------------------------------------------------------- *)
\* a getById, an update (with its four fields present) or a delete that comes
\* in for id
ComesInFor(r, id) ==
    /\ step.r = r /\ step.pc = "arrive"
    /\ reqs[r].op \in {"getById", "update", "delete"}
    /\ reqs[r].op = "update" => AllFieldsPresent(reqs[r].input)
    /\ reqs[r].id = id

\* C13: getById, update and delete answer a malformed id as they answer a
\* well-formed id that no book has: NotFound (404, 'Book not found').
C13_Claimed ==
    \A r \in Reqs :
        (ComesInFor(r, BadId) \/ ComesInFor(r, NoSuchId))
        => reqs[r].pc = "done" /\ IsNotFound(reqs[r].resp)

(* ------------------------------------------------------------------- *)
(* C14                                                                   *)
(* ------------------------------------------------------------------- *)
\* the fields a line of a message names
NamedBy(m) ==
    CASE m = "Book title is required" -> {"title"}
      [] m = "Author name is required" -> {"author"}
      [] m = "ISBN number is required" -> {"isbn"}
      [] m = "Publication date is required" -> {"publicationDate"}
      [] m = "Cast to date failed at path publicationDate" -> {"publicationDate"}
      [] m = MsgRequired[1] -> SchemaPaths
      [] OTHER -> {}

FieldsNamed(message) == UNION {NamedBy(message[i]) : i \in DOMAIN message}

MissingOrEmpty(input) == {p \in SchemaPaths : AbsentOrEmpty(input[p])}

\* a create or an update refused with ValidationError for the fields of its
\* body that are absent or empty
RefusedForMissing(r) ==
    /\ reqs[r].op \in {"create", "update"} /\ reqs[r].pc = "done"
    /\ IsValidationError(reqs[r].resp)
    /\ MissingOrEmpty(reqs[r].input) # {}

\* C14: the message of a ValidationError for missing or empty fields names
\* exactly the fields of the body that are missing or empty; the message for
\* a body missing only title is not the message for a body missing only isbn.
C14_Claimed ==
    \A r \in Reqs :
        RefusedForMissing(r)
        => /\ FieldsNamed(reqs[r].resp.message) = MissingOrEmpty(reqs[r].input)
           /\ \A q \in Reqs :
                 ( /\ RefusedForMissing(q)
                   /\ MissingOrEmpty(reqs[r].input) = {"title"}
                   /\ MissingOrEmpty(reqs[q].input) = {"isbn"} )
                 => reqs[r].resp.message # reqs[q].resp.message

(* ------------------------------------------------------------------- *)
(* C15                                                                   *)
(* ------------------------------------------------------------------- *)
\* success is true exactly for 200 and 201; a failure has a message and one
\* of the statuses 400, 404 and 500
Envelope(resp) ==
    /\ resp.success <=> resp.status \in {200, 201}
    /\ ~resp.success => resp.message # <<>> /\ resp.status \in {400, 404, 500}

AnsweredEnvelopes == \A r \in Reqs : reqs[r].pc = "done" => Envelope(reqs[r].resp)

\* a request that was answered is not answered again
AnsweredOnce == \A r \in Reqs : reqs[r].pc = "done" => reqs'[r] = reqs[r]

\* C15: every request that comes in is eventually answered, whatever store
\* call rejects on the way, and answered once; the response is an envelope
\* whose success is true exactly for 200 and 201, and a failure has a message
\* and one of the statuses 400, 404 and 500.
C15_AlwaysAnswered ==
    /\ []AnsweredEnvelopes
    /\ [][AnsweredOnce]_vars
    /\ \A r \in Reqs : (reqs[r].op # "idle") ~> (reqs[r].pc = "done")

\* a request answered by the catch block after a later store call rejected,
\* while another request is still at an await
C15_Witness ==
    \E r \in Reqs : \E q \in Reqs :
        /\ reqs[r].pc = "done" /\ reqs[r].error # ""
        /\ step.r = r /\ step.pc # "arrive"
        /\ reqs[r].resp.status = 500
        /\ reqs[q].pc \notin {"idle", "done"}

(* ------------------------------------------------------------------- *)
(* C16                                                                   *)
(* ------------------------------------------------------------------- *)
FailedMessage(op) ==
    CASE op = "create" -> MsgAddFailed
      [] op = "update" -> MsgUpdateFailed
      [] op = "delete" -> MsgDeleteFailed
      [] op = "getById" -> MsgGetFailed
      [] op = "list" -> MsgListFailed

\* request r was answered after a store call of its handler rejected
StoreFailed(r) == reqs[r].pc = "done" /\ reqs[r].error # ""

\* C16: a request one of whose store calls rejects with an error that is
\* neither a validation nor a duplicate-key error is answered 500, success
\* false, with the fixed message of its operation and no data; two requests
\* of one operation whose store calls rejected get the same response,
\* whatever the errors said.
C16_StoreFailureGeneric ==
    \A r \in Reqs :
        StoreFailed(r)
        => /\ reqs[r].resp.status = 500
           /\ ~reqs[r].resp.success
           /\ reqs[r].resp.message = FailedMessage(reqs[r].op)
           /\ reqs[r].resp.data = Null
           /\ \A q \in Reqs :
                 (StoreFailed(q) /\ reqs[q].op = reqs[r].op)
                 => reqs[q].resp = reqs[r].resp

\* two creates whose store calls rejected with different errors, one at
\* findOne and one at create
C16_Witness ==
    \E r \in Reqs : \E q \in Reqs :
        /\ StoreFailed(r) /\ StoreFailed(q)
        /\ reqs[r].op = "create" /\ reqs[q].op = "create"
        /\ reqs[r].error # reqs[q].error
        /\ reqs[r].resp.line = 127 /\ reqs[q].resp.line = 127
        /\ step.r = q /\ step.pc = "create"

(* ------------------------------------------------------------------- *)
(* C17                                                                   *)
(* ------------------------------------------------------------------- *)
\* the ids of the deletes that were answered 200
Deleted ==
    {reqs[q].id : q \in {q \in Reqs :
        reqs[q].op = "delete" /\ reqs[q].pc = "done" /\ reqs[q].resp.success}}

\* C17: once a delete was answered 200 the collection never again holds a
\* book of its id; an update that loaded the book before the delete and
\* saves after it is not answered with success and leaves the collection
\* without the book.
C17_DeletedStaysDeleted ==
    /\ \A id \in Deleted : id \notin DOMAIN books
    /\ \A r \in Reqs :
          ( /\ Answered(r, "update") /\ step.pc = "save"
            /\ reqs[r].id \in Deleted )
          => ~reqs[r].resp.success /\ books = prev

\* an update that loaded the book, then lost it to a delete, and was answered
\* from its save
C17_Witness ==
    \E r \in Reqs :
        /\ Answered(r, "update") /\ step.pc = "save"
        /\ reqs[r].book # Null
        /\ reqs[r].id \in Deleted
        /\ WellFormed(reqs[r].input)
        /\ reqs[r].resp.status = 500

(* ------------------------------------------------------------------- *)
(* C18                                                                   *)
(* ------------------------------------------------------------------- *)
\* the latest step sent a success response of a create, update or delete
WriterSucceeded ==
    \E r \in Reqs :
        /\ step.r = r /\ reqs[r].pc = "done"
        /\ reqs[r].op \in {"create", "update", "delete"}
        /\ reqs[r].resp.success

\* C18: the collection changes only in a step in which a create, an update
\* or a delete is answered with success: no step of a list or a getById, no
\* step in which a handler goes on to its next store call and no step in
\* which a request is answered 400, 404 or 500 changes the books or any of
\* their fields.
C18_OnlySuccessWrites == books # prev => WriterSucceeded

\* an update and a create answered with a failure from their write (save,
\* create), the collection not empty and as it was
C18_Witness ==
    \E r \in Reqs :
        /\ step.r = r /\ reqs[r].pc = "done"
        /\ step.pc \in {"save", "create"}
        /\ reqs[r].resp.status \in {400, 500}
        /\ DOMAIN books # {}
        /\ books = prev

(* ------------------------------------------------------------------- *)
(* C19                                                                   *)
(* ------------------------------------------------------------------- *)
\* the deletes of id that were answered with success
SucceededDeletes(id) ==
    {r \in Reqs :
        /\ reqs[r].op = "delete" /\ reqs[r].pc = "done"
        /\ reqs[r].id = id /\ reqs[r].resp.success}

\* C19: for each book at most one delete is answered with success; of two
\* deletes of one id that both found the book before either removed it, one
\* is answered 200 and the other NotFound (404).
C19_Claimed ==
    \A r \in Reqs :
        (reqs[r].op = "delete" /\ reqs[r].pc = "done" /\ reqs[r].resp.success)
        => /\ Cardinality(SucceededDeletes(reqs[r].id)) = 1
           /\ \A q \in Reqs \ {r} :
                 ( /\ reqs[q].op = "delete" /\ reqs[q].pc = "done"
                   /\ reqs[q].id = reqs[r].id )
                 => IsNotFound(reqs[q].resp)

(* ------------------------------------------------------------------- *)
(* C20                                                                   *)
(* ------------------------------------------------------------------- *)
\* the component is mounted and every call it made was answered with
\* success and its handler has resumed
AllCallsSucceeded ==
    /\ app.mounted
    /\ \A r \in Reqs :
          app.calls[r].kind # "none"
          => app.calls[r].settled /\ reqs[r].resp.success

\* what list can return from the collection as it is
ListResults ==
    {[k \in DOMAIN order |-> books[order[k]]] : order \in SortByCreatedAtDesc(books)}

\* C20: with the one client the only writer, once every call the component
\* made (the fetchBooks of mount, addBook, deleteBook, updateBook) has
\* completed with success, the component's books are what list returns: the
\* same books in the same order, none twice, also when a book was added
\* while the fetchBooks of mount was in flight.
C20_Claimed == AllCallsSucceeded => app.books \in ListResults

(* ------------------------------------------------------------------- *)
(* C21                                                                   *)
(* ------------------------------------------------------------------- *)
\* the latest success message was shown less than SuccessDelay seconds ago
ShownRecently == app.sinceShown < SuccessDelay

\* C21: showSuccessMessage displays each success message until 3 seconds
\* after it was shown: a message shown at time t is still displayed at
\* every time before t+3s, also when an earlier success message was shown
\* less than 3 seconds before t.
C21_Claimed == ShownRecently => app.successMessage # <<>>

(* ------------------------------------------------------------------- *)
(* C22                                                                   *)
(* ------------------------------------------------------------------- *)
\* title, author and isbn have something but whitespace in them and the
\* date is not the empty string
FilledIn(formData) ==
    /\ \A p \in StringPaths : formData[p].t = "string" /\ ~Blank(formData[p])
    /\ formData.publicationDate.t = "string"
    /\ formData.publicationDate.v # <<>>

\* the submissions in flight: onAddBook was called and has not returned
InFlight == {r \in Reqs : app.calls[r].kind = "addBook" /\ ~app.calls[r].settled}

\* onAddBook is called with a filled-in form only; while a submission is in
\* flight isSubmitting is true and it is the only one
C22_Safe ==
    /\ \A r \in Reqs : app.calls[r].kind = "addBook" => FilledIn(app.calls[r].input)
    /\ InFlight # {} => app.form.isSubmitting /\ Cardinality(InFlight) = 1

\* the step a submission returns in sets isSubmitting to false and clears
\* the form exactly when the add succeeded
C22_Returns ==
    \A r \in Reqs :
        (r \in InFlight /\ app'.calls[r].settled)
        => /\ ~app'.form.isSubmitting
           /\ (app'.form.formData = EmptyForm) <=> reqs[r].resp.success
           /\ ~reqs[r].resp.success => app'.form.formData = app.form.formData

\* C22: BookForm calls onAddBook only when title, author and isbn are
\* non-blank after trimming and publicationDate is non-empty; while a
\* submission is in flight isSubmitting is true and no second submission
\* can start; every submission eventually sets isSubmitting back to false,
\* whether the add succeeded or failed; and the form fields are cleared
\* exactly when the add succeeded.
C22_Submission ==
    /\ []C22_Safe
    /\ [][C22_Returns]_vars
    /\ (app.form.isSubmitting ~> ~app.form.isSubmitting)

\* a submission was refused by the server and has returned: the form is
\* enabled again and still filled in
C22_Witness ==
    \E r \in Reqs :
        /\ app.calls[r].kind = "addBook" /\ app.calls[r].settled
        /\ ~reqs[r].resp.success
        /\ ~app.form.isSubmitting /\ app.form.formData = app.calls[r].input

(* ------------------------------------------------------------------- *)
(* C23                                                                   *)
(* ------------------------------------------------------------------- *)
\* the modal is open exactly when a book is selected
ModalMatchesSelection == app.editModalOpen <=> app.selectedBook # Null

\* the step the response of an update is handled in: a successful one
\* closes the modal, clears selectedBook and changes no entry of the list
\* but the one of the id the modal was opened on; a failed one leaves the
\* modal and the list as they were and sets the error
UpdateHandled ==
    \A r \in Reqs :
        ( /\ app.calls[r].kind = "updateBook"
          /\ ~app.calls[r].settled /\ app'.calls[r].settled )
        => IF reqs[r].resp.success
           THEN /\ ~app'.editModalOpen /\ app'.selectedBook = Null
                /\ DOMAIN app'.books = DOMAIN app.books
                /\ \A k \in DOMAIN app.books :
                      IF app.books[k]._id = app.calls[r].id
                      THEN app'.books[k] = reqs[r].resp.data
                      ELSE app'.books[k] = app.books[k]
           ELSE /\ app'.editModalOpen = app.editModalOpen
                /\ app'.selectedBook = app.selectedBook
                /\ app'.books = app.books
                /\ app'.error # <<>>

\* C23: in every reachable state of the App component editModalOpen is
\* true exactly when selectedBook is non-null; a successful update closes
\* the modal and clears selectedBook, and a failed update leaves the modal
\* open on the same selectedBook with the error message set; an update
\* response replaces in the books list only the entry whose _id is the one
\* the modal was opened on.
C23_Modal == []ModalMatchesSelection /\ [][UpdateHandled]_vars

\* an update was refused and has returned: the modal is still open on the
\* book it was opened on and the error is set
C23_Witness ==
    \E r \in Reqs :
        /\ app.calls[r].kind = "updateBook" /\ app.calls[r].settled
        /\ ~reqs[r].resp.success
        /\ app.editModalOpen /\ app.selectedBook # Null
        /\ app.selectedBook._id = app.calls[r].id
        /\ app.error # <<>>

====
